---- MODULE Spec2Model ----
(***************************************************************************)
(* Bar-close watchers of the MT5 OHLCV fetcher.                            *)
(*                                                                         *)
(*   src/fetch_ohlcv.py      watch_and_export_on_close  (prog = "watch")   *)
(*   src/fetch_mt5_ohlcv.py  monitor_timeframes         (prog = "monitor") *)
(*                                                                         *)
(* One step of the model is one interaction of the script with the         *)
(* outside: a call into the MetaTrader5 terminal, a file-system operation  *)
(* or the sleep.  The terminal's history, the files, failures of the       *)
(* terminal or of the disk and Ctrl+C are the environment.                 *)
(*                                                                         *)
(* A candle is identified by its open_time; the candles of a timeframe are *)
(* numbered 1, 2, 3, ... by open_time, and src[tf] is the number of closed *)
(* candles the terminal holds.  OHLCV values and the rendering of the time *)
(* in the display timezone travel with the open_time unchanged and are not *)
(* represented.                                                            *)
(***************************************************************************)
EXTENDS Integers, Sequences, FiniteSets, TLC

\* ---------------------------------------------------------------- bounds
MaxNew == 2         \* candles that close during a run
MaxTicks == 1       \* sleeps of the poll loop (it makes MaxTicks + 1 passes)
MaxLoss == 1        \* times the terminal's history goes backwards in a run
BarsToKeep == 2     \* bars_to_keep / config.bars of the run
MaxCalls == 3       \* export_csv calls on one path, when it is run on its own

\* ------------------------------------------------------------- constants
Unset == 0          \* a timeframe with no entry in last_closed_time / last_times
PollBars == 2       \* the watcher asks for the 2 most recent candles

Codes == {"M1", "H1", "X9"}
\* the part of the timeframe tables the runs use; "X9" is in neither table
MAP == {"M1", "H1"}
TIMEFRAME_ALIASES == {"M1", "H1"}

TimeframeLists == {<<"M1">>, <<"M1", "H1">>, <<"X9">>, <<"M1", "X9">>}

VARIABLES
    prog,                   \* which script runs
    timeframes,             \* the run's list of timeframe codes
    full_refresh_on_close,  \* the watcher's write policy
    src,                    \* terminal: number of closed candles per timeframe
    file,                   \* disk: the CSV of each timeframe
    called,                 \* terminal/disk operations performed so far
    lastCall,               \* the most recent of them
    pc,                     \* position of the script
    i,                      \* index of the timeframe being handled
    rates,                  \* the batch fetched last (open_times)
    latest_closed_utc,      \* open_time of rates[-1] of the 2-candle fetch
    last_closed_time,       \* watch_and_export_on_close's watermark
    last_times,             \* monitor_timeframes's watermark
    ticks,                  \* completed passes of the poll loop
    news,                   \* candles that closed during the run
    losses,                 \* times the terminal's history went backwards
    raised,                 \* exception propagating out of the function
    interrupted,            \* Ctrl+C was received inside the try block
    stdout,                 \* per timeframe: open_times of the CLOSED/Updated lines
    observed,               \* per timeframe: latest open_times the fetches saw
    writes,                 \* per timeframe: the completed CSV writes
    existed                 \* the timeframes whose CSV existed at startup

vars == <<prog, timeframes, full_refresh_on_close, src, file, called, lastCall,
          pc, i, rates, latest_closed_utc, last_closed_time, last_times, ticks,
          news, losses, raised, interrupted, stdout, observed, writes, existed>>

config == <<prog, timeframes, full_refresh_on_close, existed>>
\* the locals of the loop body
locals == <<i, rates, latest_closed_utc>>
\* the per-timeframe results of the run
marks == <<last_closed_time, last_times, stdout, observed>>

\* ---------------------------------------------------------------- helpers
Min(a, b) == IF a < b THEN a ELSE b
Max(a, b) == IF a > b THEN a ELSE b

TfSet == {timeframes[k] : k \in 1..Len(timeframes)}
tf == timeframes[i]

\* mt5.copy_rates_from_pos(symbol, tf, 0, count): the `count` most recent
\* candles, oldest first, fewer when the history is shorter.
copy_rates_from_pos(n, count) ==
    [j \in 1..Min(n, count) |-> n - Min(n, count) + j]

Header == [kind |-> "header", time |-> 0]
Row(t) == [kind |-> "row", time |-> t]
Rows(ts) == [j \in 1..Len(ts) |-> Row(ts[j])]
NoFile == [exists |-> FALSE, lines |-> <<>>]

\* DataFrame.to_csv(filepath, index=False): header and rows replace the file
to_csv_w(ts) == [exists |-> TRUE, lines |-> <<Header>> \o Rows(ts)]
\* DataFrame.to_csv(filepath, mode="a", header=False, index=False)
to_csv_a(f, ts) == [exists |-> TRUE, lines |-> f.lines \o Rows(ts)]

\* export_csv that never appends
export_csv_overwrites(f, ts, append) == to_csv_w(ts)

\* export_csv without the check for a missing file
export_csv_no_fallback(f, ts, append) ==
    IF append THEN to_csv_a(f, ts) ELSE to_csv_w(ts)

\* export_csv that appends whenever the file is there
export_csv_appends(f, ts, append) ==
    IF f.exists THEN to_csv_a(f, ts) ELSE to_csv_w(ts)

export_csv(f, ts, append) ==
    LET app == IF append /\ ~f.exists THEN FALSE ELSE append
    IN  IF app THEN to_csv_a(f, ts) ELSE to_csv_w(ts)

export_to_csv(ts) == [exists |-> TRUE, lines |-> <<Header>> \o Rows(ts)]

\* the comparison with >= for >
IsNewer_or_equal(latest, mark) == latest >= mark

\* if latest_closed_utc > last_closed_time[tf]
IsNewer(latest, mark) == latest > mark

\* a comparison that never finds the times equal
IsSame_never(mark, latest) == FALSE

\* if last_times.get(tf) == last_record_time: continue
IsSame(mark, latest) == mark = latest

\* a preparation loop that exports whether the file is there or not
NeedsExport_always(f) == TRUE

\* if not os.path.exists(out_paths[tf])
NeedsExport(f) == ~f.exists

\* a filename template without {timeframe}: one path for all timeframes
out_path_one_file(t) == "M1"

\* out_paths[tf] = os.path.join(out_dir, filename_template.format(symbol=symbol,
\* timeframe=tf)): with {timeframe} in the template, a path of its own for
\* every timeframe code; the path is named by the code
out_path(t) == t

\* an append of the whole 2-candle batch
LastBar_whole_batch(r) == r

\* row = pd.DataFrame([rates[-1]])
LastBar(r) == <<r[Len(r)]>>

timeframe_to_mt5(t) == t \in MAP
resolve_timeframe(t) == t \in TIMEFRAME_ALIASES

Last(s) == s[Len(s)]

\* a completed write: what made it and the latest open_time that triggered it
Written(kind, t) == [kind |-> kind, time |-> t]

\* what a write that fails part-way can leave behind: the old file (the
\* failure came before the open) or, once the file is opened for writing, any
\* proper prefix of the new content
PartialWrites(f, new) ==
    {f} \cup {[exists |-> TRUE, lines |-> SubSeq(new.lines, 1, k)] :
                 k \in 0..(Len(new.lines) - 1)}

\* ------------------------------------------------------------------ Init
\* when the run starts the terminal holds just the candles the watcher asks for
InitBars == PollBars

\* a CSV that exists at startup was left by an earlier run, which ended one
\* candle before the latest
InitFiles(s) ==
    {f \in [Codes -> {NoFile} \cup
                     {to_csv_w(copy_rates_from_pos(n, BarsToKeep)) : n \in 0..InitBars}] :
        \A c \in Codes :
            /\ c \notin TfSet => f[c] = NoFile
            /\ f[c].exists =>
                  f[c] = to_csv_w(copy_rates_from_pos(Max(s[c] - 1, 0), BarsToKeep))}

Init ==
    /\ prog \in {"watch", "monitor"}
    /\ timeframes \in TimeframeLists
    /\ full_refresh_on_close \in (IF prog = "watch" THEN BOOLEAN ELSE {TRUE})
    /\ src = [c \in Codes |-> IF c \in TfSet \cap MAP THEN InitBars ELSE 0]
    /\ file \in InitFiles(src)
    /\ called = {}
    /\ lastCall = "none"
    /\ pc = IF prog = "watch" THEN "w_init" ELSE "m_init"
    /\ i = 1
    /\ rates = <<>>
    /\ latest_closed_utc = Unset
    /\ last_closed_time = [c \in Codes |-> Unset]
    /\ last_times = [c \in Codes |-> Unset]
    /\ ticks = 0
    /\ news = 0
    /\ losses = 0
    /\ raised = "none"
    /\ interrupted = FALSE
    /\ stdout = [c \in Codes |-> <<>>]
    /\ observed = [c \in Codes |-> <<>>]
    /\ writes = [c \in Codes |-> <<>>]
    /\ existed = {c \in Codes : file[c].exists}

\* ------------------------------------------------------ control helpers
Call(op) == called' = called \cup {op} /\ lastCall' = op

\* the try block is left: the locals of the loop body and the counters that
\* bound the loop are dead from here on
Leave ==
    /\ i' = 1
    /\ rates' = <<>>
    /\ latest_closed_utc' = Unset
    /\ ticks' = 0
    /\ news' = 0
    /\ losses' = 0

\* an exception leaves the try block: the finally clause runs next
Raise(exc) == pc' = "finally" /\ raised' = exc /\ Leave /\ UNCHANGED interrupted

\* KeyboardInterrupt with no finally clause behind it
Interrupted_no_finally ==
    pc' = "done" /\ interrupted' = TRUE /\ Leave /\ UNCHANGED raised

\* KeyboardInterrupt leaves the try block: `except KeyboardInterrupt` catches
\* it and prints, then the finally clause runs
Interrupted == pc' = "finally" /\ interrupted' = TRUE /\ Leave /\ UNCHANGED raised

\* a step that stays in the try block
Goto(next) == pc' = next /\ UNCHANGED <<raised, interrupted, ticks, news, losses>>

\* `continue` / end of the body of `for tf in timeframes` in the poll loop
NextTf(loopPc, sleepPc) ==
    /\ IF i < Len(timeframes)
       THEN i' = i + 1 /\ pc' = loopPc
       ELSE i' = 1 /\ pc' = sleepPc
    /\ rates' = <<>>
    /\ latest_closed_utc' = Unset
    /\ UNCHANGED <<raised, interrupted, ticks, news, losses>>

\* positions inside the try block of either function
TryPcs == {"w_prep", "w_prep_select", "w_prep_copy", "w_prep_write",
           "w_seed", "w_seed_select", "w_seed_copy",
           "w_poll", "w_refresh_select", "w_refresh_copy", "w_refresh_write",
           "w_append_write", "w_mark", "w_sleep",
           "m_init", "m_copy", "m_write", "m_print", "m_sleep"}

\* positions whose step reads the terminal's history of timeframe tf
CopyPcs == {"w_prep_copy", "w_seed_copy", "w_poll", "w_refresh_copy", "m_copy"}

\* ---------------------------------------------------------- environment
\* The script sees the terminal's history only when it reads it, so a change
\* of the history of a timeframe is taken when a read of that timeframe is
\* next; any number of changes can precede one read.

\* a candle of timeframe t closes in the terminal
NewCandle(t) ==
    /\ pc \in CopyPcs
    /\ t = tf
    /\ t \in MAP
    /\ news < MaxNew
    /\ news' = news + 1
    /\ src' = [src EXCEPT ![t] = @ + 1]
    /\ UNCHANGED <<config, file, called, lastCall, pc, locals, marks, ticks, losses,
                   raised, interrupted, writes>>

\* the terminal loses its most recent candle of timeframe t (history resync)
HistoryLoss(t) ==
    /\ pc \in CopyPcs
    /\ t = tf
    /\ t \in MAP
    /\ src[t] > 0
    /\ losses < MaxLoss
    /\ losses' = losses + 1
    /\ src' = [src EXCEPT ![t] = @ - 1]
    /\ UNCHANGED <<config, file, called, lastCall, pc, locals, marks, ticks, news,
                   raised, interrupted, writes>>

\* positions whose step does something else when the CSV of tf is missing
RemovePcs == {"w_append_write", "export"}

\* the CSV of timeframe t is removed from the disk by someone else.  A removal
\* before the run is the initial state without the file, and the full writes
\* replace the file whether it is there or not, so the removal is taken where
\* an appending export_csv is next.
FileRemoved(t) ==
    /\ pc \in RemovePcs
    /\ t = tf
    /\ file[out_path(t)].exists
    /\ file' = [file EXCEPT ![out_path(t)] = NoFile]
    /\ UNCHANGED <<config, src, called, lastCall, pc, locals, marks, ticks, news,
                   losses, raised, interrupted, writes>>

\* Ctrl+C between two steps of the try block
Interrupt ==
    /\ pc \in TryPcs
    /\ Interrupted
    /\ UNCHANGED <<config, src, file, called, lastCall, marks, writes>>

\* ------------------------------------------- fetch_ohlcv_mt5, step by step
\* mt5.symbol_select(symbol, True)
fetch_select(at, next) ==
    /\ pc = at
    /\ Call("symbol_select")
    /\ \E selected \in BOOLEAN :
          IF selected THEN Goto(next) /\ UNCHANGED locals
                      ELSE Raise("RuntimeError")
    /\ UNCHANGED <<config, src, file, marks, writes>>

\* what mt5.copy_rates_from_pos hands back: None, or the batch
FetchResults(count) ==
    {[none |-> TRUE, rates |-> <<>>],
     [none |-> FALSE, rates |-> copy_rates_from_pos(src[tf], count)]}

\* rates = mt5.copy_rates_from_pos(symbol, tf_const, 0, bars) and the check
\* `rates is None or len(rates) == 0` of fetch_ohlcv_mt5
fetch_copy(at, next, count) ==
    /\ pc = at
    /\ Call("copy_rates_from_pos")
    /\ \E r \in FetchResults(count) :
          IF r.none \/ Len(r.rates) = 0
          THEN Raise("RuntimeError")
          ELSE Goto(next) /\ rates' = r.rates /\ UNCHANGED <<i, latest_closed_utc>>
    /\ UNCHANGED <<config, src, file, marks, writes>>

\* ------------------------------------------- watch_and_export_on_close
\* init_mt5(), called before the try block is entered
init_mt5 ==
    /\ pc = "w_init"
    /\ Call("initialize")
    /\ \E ok \in BOOLEAN :
          IF ok THEN pc' = "w_prep" /\ UNCHANGED raised
                ELSE pc' = "done" /\ raised' = "RuntimeError"
    /\ UNCHANGED <<config, src, file, locals, marks, ticks, news, losses, interrupted,
                   writes>>

\* the file preparation went through all timeframes: the seed loop starts
PrepAdvance ==
    /\ IF i < Len(timeframes)
       THEN i' = i + 1 /\ pc' = "w_prep"
       ELSE i' = 1 /\ pc' = "w_seed"
    /\ rates' = <<>>
    /\ UNCHANGED <<latest_closed_utc, raised, interrupted, ticks, news, losses>>

\* for tf in timeframes: if not os.path.exists(out_paths[tf]): fetch_ohlcv_mt5(...)
\* up to its timeframe_to_mt5(timeframe)
W_Prep ==
    /\ pc = "w_prep"
    /\ IF ~NeedsExport(file[out_path(tf)]) THEN PrepAdvance
       ELSE IF timeframe_to_mt5(tf) THEN Goto("w_prep_select") /\ UNCHANGED locals
       ELSE Raise("ValueError")
    /\ UNCHANGED <<config, src, file, called, lastCall, marks, writes>>

W_PrepSelect == fetch_select("w_prep_select", "w_prep_copy")

\* df0 = fetch_ohlcv_mt5(symbol, tf, bars_to_keep, tz_out): the copy_rates part
W_PrepCopy == fetch_copy("w_prep_copy", "w_prep_write", BarsToKeep)

\* what export_csv can leave behind when it fails part-way
WriteFailures(f, ts, append) ==
    IF append /\ f.exists THEN {f} ELSE PartialWrites(f, to_csv_w(ts))

\* export_csv(df, out_paths[tf], append) as one step of the watcher: it
\* completes, or it raises OSError, or Ctrl+C arrives while it writes
W_Export(at, ts, append, w, Advance) ==
    /\ pc = at
    /\ Call("write")
    /\ \/ /\ file' = [file EXCEPT ![out_path(tf)] = export_csv(@, ts, append)]
          /\ writes' = [writes EXCEPT ![tf] = Append(@, w)]
          /\ Advance
       \/ /\ \E f \in WriteFailures(file[out_path(tf)], ts, append) :
                file' = [file EXCEPT ![out_path(tf)] = f]
          /\ Raise("OSError")
          /\ UNCHANGED writes
       \/ /\ \E f \in WriteFailures(file[out_path(tf)], ts, append) :
                file' = [file EXCEPT ![out_path(tf)] = f]
          /\ Interrupted
          /\ UNCHANGED writes
    /\ UNCHANGED <<config, src, marks>>

\* export_csv(df0, out_paths[tf], append=False)
W_PrepWrite ==
    W_Export("w_prep_write", rates, FALSE, Written("seed", Last(rates)), PrepAdvance)

\* seed: df = fetch_ohlcv_mt5(symbol, tf, 2, tz_out="UTC"), its timeframe_to_mt5
W_Seed ==
    /\ pc = "w_seed"
    /\ IF timeframe_to_mt5(tf) THEN Goto("w_seed_select") /\ UNCHANGED locals
       ELSE Raise("ValueError")
    /\ UNCHANGED <<config, src, file, called, lastCall, marks, writes>>

W_SeedSelect == fetch_select("w_seed_select", "w_seed_copy")

\* the copy_rates part of the seed fetch, then
\* last_closed_time[tf] = df["time"].iloc[-1]
W_SeedCopy ==
    /\ pc = "w_seed_copy"
    /\ Call("copy_rates_from_pos")
    /\ \E r \in FetchResults(PollBars) :
          IF r.none \/ Len(r.rates) = 0
          THEN /\ Raise("RuntimeError")
               /\ UNCHANGED <<last_closed_time, observed>>
          ELSE /\ last_closed_time' = [last_closed_time EXCEPT ![tf] = Last(r.rates)]
               /\ observed' = [observed EXCEPT ![tf] = Append(@, Last(r.rates))]
               /\ IF i < Len(timeframes)
                  THEN i' = i + 1 /\ pc' = "w_seed"
                  ELSE i' = 1 /\ pc' = "w_poll"
               /\ UNCHANGED <<rates, latest_closed_utc, raised, interrupted, ticks,
                              news, losses>>
    /\ UNCHANGED <<config, src, file, last_times, stdout, writes>>

\* one pass of the body of `for tf in timeframes` up to the comparison
\* latest_closed_utc > last_closed_time[tf]
W_Poll ==
    /\ pc = "w_poll"
    /\ IF ~timeframe_to_mt5(tf)
       THEN Raise("ValueError") /\ UNCHANGED <<called, lastCall, observed>>
       ELSE /\ Call("copy_rates_from_pos")
            /\ \E r \in FetchResults(PollBars) :
                  IF r.none \/ Len(r.rates) < PollBars
                  THEN NextTf("w_poll", "w_sleep") /\ UNCHANGED observed
                  ELSE /\ observed' = [observed EXCEPT ![tf] = Append(@, Last(r.rates))]
                       /\ IF IsNewer(Last(r.rates), last_closed_time[tf])
                          THEN /\ rates' = r.rates
                               /\ latest_closed_utc' = Last(r.rates)
                               /\ Goto(IF full_refresh_on_close
                                       THEN "w_refresh_select"
                                       ELSE "w_append_write")
                               /\ UNCHANGED i
                          ELSE NextTf("w_poll", "w_sleep")
    /\ UNCHANGED <<config, src, file, last_closed_time, last_times, stdout, writes>>

W_RefreshSelect == fetch_select("w_refresh_select", "w_refresh_copy")

\* df = fetch_ohlcv_mt5(symbol, tf, bars_to_keep, tz_out): the copy_rates part
W_RefreshCopy == fetch_copy("w_refresh_copy", "w_refresh_write", BarsToKeep)

ToMark == Goto("w_mark") /\ UNCHANGED locals

\* export_csv(df, out_paths[tf], append=False)
W_RefreshWrite ==
    W_Export("w_refresh_write", rates, FALSE, Written("refresh", latest_closed_utc),
             ToMark)

\* export_csv(row, out_paths[tf], append=True), row = rates[-1]
W_AppendWrite ==
    W_Export("w_append_write", LastBar(rates), TRUE,
             Written("append", latest_closed_utc), ToMark)

\* print("... CLOSED -> ..."); last_closed_time[tf] = latest_closed_utc
W_Mark ==
    /\ pc = "w_mark"
    /\ stdout' = [stdout EXCEPT ![tf] = Append(@, latest_closed_utc)]
    /\ last_closed_time' = [last_closed_time EXCEPT ![tf] = latest_closed_utc]
    /\ NextTf("w_poll", "w_sleep")
    /\ UNCHANGED <<config, src, file, called, lastCall, last_times, observed, writes>>

\* time.sleep(poll_sec)
W_Sleep ==
    /\ pc = "w_sleep"
    /\ ticks < MaxTicks
    /\ ticks' = ticks + 1
    /\ pc' = "w_poll"
    /\ UNCHANGED <<raised, interrupted, news, losses>>
    /\ UNCHANGED <<config, src, file, called, lastCall, locals, marks, writes>>

\* ------------------------------------------------- monitor_timeframes
\* fetch_ohlcv: ensure_mt5_initialized(), then resolve_timeframe(timeframe)
M_Init ==
    /\ pc = "m_init"
    /\ Call("initialize")
    /\ \E ok \in BOOLEAN :
          IF ~ok THEN Raise("RuntimeError")
          ELSE IF resolve_timeframe(tf) THEN Goto("m_copy") /\ UNCHANGED locals
          ELSE Raise("ValueError")
    /\ UNCHANGED <<config, src, file, marks, writes>>

\* fetch_ohlcv: copy_rates_from_pos and the records; then the comparison
\* with last_times and the assignment last_times[tf] = last_record_time
M_Copy ==
    /\ pc = "m_copy"
    /\ Call("copy_rates_from_pos")
    /\ \E r \in FetchResults(BarsToKeep) :
          IF r.none
          THEN Raise("RuntimeError") /\ UNCHANGED <<last_times, observed>>
          ELSE IF Len(r.rates) = 0
          THEN NextTf("m_init", "m_sleep") /\ UNCHANGED <<last_times, observed>>
          ELSE /\ observed' = [observed EXCEPT ![tf] = Append(@, Last(r.rates))]
               /\ IF IsSame(last_times[tf], Last(r.rates))
                  THEN NextTf("m_init", "m_sleep") /\ UNCHANGED last_times
                  ELSE /\ last_times' = [last_times EXCEPT ![tf] = Last(r.rates)]
                       /\ rates' = r.rates
                       /\ Goto("m_write")
                       /\ UNCHANGED <<i, latest_closed_utc>>
    /\ UNCHANGED <<config, src, file, last_closed_time, stdout, writes>>

\* export_to_csv(records, config.output_dir / filename, config.timezone):
\* it completes, or it raises OSError, or Ctrl+C arrives while it writes
M_Write ==
    /\ pc = "m_write"
    /\ Call("write")
    /\ \/ /\ file' = [file EXCEPT ![out_path(tf)] = export_to_csv(rates)]
          /\ writes' = [writes EXCEPT ![tf] = Append(@, Written("export", Last(rates)))]
          /\ Goto("m_print")
          /\ UNCHANGED locals
       \/ /\ \E f \in PartialWrites(file[out_path(tf)], export_to_csv(rates)) :
                file' = [file EXCEPT ![out_path(tf)] = f]
          /\ Raise("OSError")
          /\ UNCHANGED writes
       \/ /\ \E f \in PartialWrites(file[out_path(tf)], export_to_csv(rates)) :
                file' = [file EXCEPT ![out_path(tf)] = f]
          /\ Interrupted
          /\ UNCHANGED writes
    /\ UNCHANGED <<config, src, marks>>

\* print("... Updated ...")
M_Print ==
    /\ pc = "m_print"
    /\ stdout' = [stdout EXCEPT ![tf] = Append(@, Last(rates))]
    /\ NextTf("m_init", "m_sleep")
    /\ UNCHANGED <<config, src, file, called, lastCall, last_closed_time, last_times,
                   observed, writes>>

\* time.sleep(config.poll_interval)
M_Sleep ==
    /\ pc = "m_sleep"
    /\ ticks < MaxTicks
    /\ ticks' = ticks + 1
    /\ pc' = "m_init"
    /\ UNCHANGED <<raised, interrupted, news, losses>>
    /\ UNCHANGED <<config, src, file, called, lastCall, locals, marks, writes>>

\* ------------------------------------------------- except / finally
\* finally: shutdown_mt5() swallows what mt5.shutdown() raises;
\* monitor_timeframes calls mt5.shutdown() bare
Finally ==
    /\ pc = "finally"
    /\ Call("shutdown")
    /\ pc' = "done"
    /\ \E fails \in BOOLEAN :
          raised' = IF fails /\ prog = "monitor" THEN "Exception" ELSE raised
    /\ UNCHANGED <<config, src, file, locals, marks, ticks, news, losses, interrupted,
                   writes>>

Next ==
    \/ \E t \in Codes : NewCandle(t)
    \/ \E t \in Codes : HistoryLoss(t)
    \/ \E t \in Codes : FileRemoved(t)
    \/ Interrupt
    \/ init_mt5
    \/ W_Prep
    \/ W_PrepSelect
    \/ W_PrepCopy
    \/ W_PrepWrite
    \/ W_Seed
    \/ W_SeedSelect
    \/ W_SeedCopy
    \/ W_Poll
    \/ W_RefreshSelect
    \/ W_RefreshCopy
    \/ W_RefreshWrite
    \/ W_AppendWrite
    \/ W_Mark
    \/ W_Sleep
    \/ M_Init
    \/ M_Copy
    \/ M_Write
    \/ M_Print
    \/ M_Sleep
    \/ Finally

Spec == Init /\ [][Next]_vars

\* ------------------------------------------------- export_csv on its own
\* export_csv(df, filepath, append) called again and again on one path, as
\* fetch_to_csv does run after run, with any batch and either value of append

\* the batches of candles a fetch can hand to export_csv
Batches ==
    {copy_rates_from_pos(n, c) : n \in 0..(InitBars + MaxNew), c \in 0..BarsToKeep}

InitExport ==
    /\ prog = "fetch_to_csv"
    /\ timeframes = <<"M1">>
    /\ full_refresh_on_close = FALSE
    /\ src = [c \in Codes |-> 0]
    /\ file = [c \in Codes |-> NoFile]
    /\ called = {}
    /\ lastCall = "none"
    /\ pc = "export"
    /\ i = 1
    /\ rates = <<>>
    /\ latest_closed_utc = Unset
    /\ last_closed_time = [c \in Codes |-> Unset]
    /\ last_times = [c \in Codes |-> Unset]
    /\ ticks = 0
    /\ news = 0
    /\ losses = 0
    /\ raised = "none"
    /\ interrupted = FALSE
    /\ stdout = [c \in Codes |-> <<>>]
    /\ observed = [c \in Codes |-> <<>>]
    /\ writes = [c \in Codes |-> <<>>]
    /\ existed = {}

\* export_csv(df, csv_path, append=append)
Export ==
    /\ pc = "export"
    /\ Len(writes[tf]) < MaxCalls
    /\ \E ts \in Batches, append \in BOOLEAN :
          /\ file' = [file EXCEPT ![out_path(tf)] = export_csv(@, ts, append)]
          /\ rates' = ts
          /\ writes' = [writes EXCEPT ![tf] =
                           Append(@, Written(IF append THEN "append" ELSE "full",
                                             Len(ts)))]
    /\ Call("write")
    /\ UNCHANGED <<config, src, pc, i, latest_closed_utc, marks, ticks, news, losses,
                   raised, interrupted>>

NextExport ==
    \/ Export
    \/ \E t \in Codes : FileRemoved(t)

SpecExport == InitExport /\ [][NextExport]_vars

\* ====================================================================
\* Properties
\* ====================================================================
NonDecreasing(s) == \A j \in 1..(Len(s) - 1) : s[j] <= s[j + 1]

\* the values of s that differ from the value before them, in order
RECURSIVE NewlyObserved(_)
NewlyObserved(s) ==
    IF Len(s) < 2 THEN <<>>
    ELSE LET r == NewlyObserved(SubSeq(s, 1, Len(s) - 1))
         IN  IF s[Len(s)] # s[Len(s) - 1] THEN Append(r, s[Len(s)]) ELSE r

\* the writes of timeframe t made by the poll loop
PollWrites(t) == SelectSeq(writes[t], LAMBDA w : w.kind # "seed")

\* positions of the watcher's poll loop at which a poll of tf is under way
W_MidPoll == {"w_refresh_select", "w_refresh_copy", "w_refresh_write",
              "w_append_write", "w_mark"}

\* the watcher is in its poll loop and no poll of timeframe t is under way
W_BetweenPolls(t) ==
    /\ prog = "watch"
    /\ \/ pc \in {"w_poll", "w_sleep"}
       \/ pc \in W_MidPoll /\ tf # t

\* C1: in watch_and_export_on_close, as long as the latest open_time the
\* fetches of a timeframe see never decreases, between polls the CLOSED lines
\* printed for the timeframe are exactly the newly observed open_times after
\* the seed, one line each and in order, every one of them with one write of its
\* own, and the watermark is the open_time observed last.
C1_OneNotificationPerNewCandle ==
    \A t \in TfSet :
        (W_BetweenPolls(t) /\ Len(observed[t]) > 0 /\ NonDecreasing(observed[t]))
        => /\ stdout[t] = NewlyObserved(observed[t])
           /\ Len(PollWrites(t)) = Len(stdout[t])
           /\ \A k \in 1..Len(stdout[t]) : PollWrites(t)[k].time = stdout[t][k]
           /\ last_closed_time[t] = Last(observed[t])

\* two new candles were observed one after the other, each was announced
C1_Witness ==
    /\ prog = "watch"
    /\ pc = "w_sleep"
    /\ \E t \in TfSet :
          /\ Len(observed[t]) = 3
          /\ observed[t][1] < observed[t][2]
          /\ observed[t][2] < observed[t][3]
          /\ Len(stdout[t]) = 2

\* a step of the poll loop that fetched for tf and saw the latest open_time
\* that the fetch before it, for the same timeframe, saw
PollSawSame ==
    /\ pc \in {"w_poll", "m_copy"}
    /\ Len(observed[tf]) > 0
    /\ observed'[tf] = Append(observed[tf], Last(observed[tf]))

\* C2: a poll that sees the latest open_time the previous poll of the same
\* timeframe saw writes nothing, prints nothing, leaves the watermark as it is
\* and goes on to the next timeframe or to the sleep; in both functions.
C2_RepeatedLatestIsNoOp ==
    [][PollSawSame =>
         /\ file' = file
         /\ writes' = writes
         /\ stdout' = stdout
         /\ last_closed_time' = last_closed_time
         /\ last_times' = last_times
         /\ pc' \in {"w_poll", "w_sleep", "m_init", "m_sleep"}]_vars

\* monitor_timeframes polled a timeframe twice and saw the same latest candle
C2_Witness ==
    /\ prog = "monitor"
    /\ pc = "m_sleep"
    /\ \E t \in TfSet :
          /\ Len(observed[t]) = 2
          /\ observed[t][1] = observed[t][2]
          /\ Len(stdout[t]) = 1

\* the watcher polled a timeframe twice and saw the same latest candle
C2_WitnessWatch ==
    /\ prog = "watch"
    /\ pc = "w_sleep"
    /\ \E t \in TfSet :
          /\ Len(observed[t]) = 3
          /\ observed[t][2] = observed[t][3]

\* C4: under the append policy, with the file in place, the write of a poll
\* that found a newer candle adds one row, the row of that candle, after the
\* rows the file had, and the step after it sets the watermark to that
\* candle's open_time and touches no file.
C4_AppendOneRow ==
    /\ [][(pc = "w_append_write" /\ pc' = "w_mark" /\ file[tf].exists) =>
            /\ file'[tf].exists
            /\ file'[tf].lines = Append(file[tf].lines, Row(latest_closed_utc))
            /\ latest_closed_utc = Last(rates)
            /\ latest_closed_utc > last_closed_time[tf]
            /\ \A t \in Codes \ {tf} : file'[t] = file[t]]_vars
    /\ [][(pc = "w_mark" /\ pc' # "finally") =>
            /\ last_closed_time'[tf] = latest_closed_utc
            /\ file' = file]_vars

\* a row was appended to a file that held a header and a row
C4_Witness ==
    /\ prog = "watch"
    /\ ~full_refresh_on_close
    /\ pc = "w_mark"
    /\ Len(file[tf].lines) >= 3
    /\ file[tf].lines[1] = Header
    /\ Last(file[tf].lines) = Row(latest_closed_utc)

\* C5: under the full-refresh policy, when the write of a poll that found a
\* newer candle is done the file holds the header and the latest bars_to_keep
\* candles of the terminal (all of them when it has fewer), and the step
\* after it sets the watermark to the open_time the poll found.
C5_FullRefresh ==
    /\ [](  (prog = "watch" /\ full_refresh_on_close /\ pc = "w_mark")
            => /\ file[tf].exists
               /\ file[tf].lines =
                    <<Header>> \o Rows(copy_rates_from_pos(src[tf], BarsToKeep))
               /\ Len(file[tf].lines) = 1 + Min(src[tf], BarsToKeep))
    /\ [][(pc = "w_mark" /\ pc' # "finally") =>
            /\ last_closed_time'[tf] = latest_closed_utc
            /\ latest_closed_utc > last_closed_time[tf]]_vars

\* a refresh replaced a file by the header and a full window of candles
C5_Witness ==
    /\ prog = "watch"
    /\ full_refresh_on_close
    /\ pc = "w_mark"
    /\ src[tf] > BarsToKeep
    /\ Len(file[tf].lines) = 1 + BarsToKeep

\* C8: when Ctrl+C ended the loop, the function returns only after
\* mt5.shutdown() was called, and the shutdown is the last thing done to the
\* terminal or to the disk; once it is called nothing else is.
C8_ShutdownOnInterrupt ==
    /\ (interrupted /\ pc = "done") => lastCall = "shutdown"
    /\ interrupted => pc \in {"finally", "done"}
    /\ "shutdown" \in called => (lastCall = "shutdown" /\ pc = "done")

\* Ctrl+C arrived in the poll loop, after a candle was written
C8_Witness ==
    /\ interrupted
    /\ pc = "done"
    /\ lastCall = "shutdown"
    /\ \E t \in TfSet : Len(stdout[t]) > 0

\* the watermark of timeframe t in the function that runs
Watermark(t) == IF prog = "watch" THEN last_closed_time[t] ELSE last_times[t]

\* the seed of timeframe t as the claim C3 has it: one full export at most so
\* far, the watermark on the candle observed, nothing printed
SilentSeed(t) ==
    /\ stdout[t] = <<>>
    /\ Watermark(t) = observed[t][1]
    /\ Len(writes[t]) <= 1
    /\ Len(writes[t]) = 1 =>
          /\ file[t].exists
          /\ file[t].lines[1] = Header
          /\ Len(file[t].lines) \in 2..(1 + BarsToKeep)

\* C3: as long as a timeframe whose CSV did not exist at startup has been
\* observed once only, one full export of header and up to bars_to_keep rows
\* was made for it, its watermark is the open_time observed, and no line was
\* printed for it; in both functions.
C3_SeedIsSilent ==
    \A t \in TfSet \ existed : Len(observed[t]) = 1 => SilentSeed(t)

\* the part of C3 that holds: watch_and_export_on_close alone
C3_SeedIsSilentInWatch ==
    prog = "watch" =>
        \A t \in TfSet \ existed :
            Len(observed[t]) = 1 => (SilentSeed(t) /\ Len(writes[t]) = 1)

\* C6: a watermark that was moved to an open_time has a completed write made
\* for that open_time behind it; for last_closed_time past its seed value and
\* for last_times.
C6_WatermarkAfterWrite ==
    \A t \in TfSet :
        /\ (prog = "watch" /\ Len(observed[t]) > 0 /\ last_closed_time[t] # observed[t][1]) =>
              \E k \in 1..Len(writes[t]) :
                  writes[t][k].kind # "seed" /\ writes[t][k].time = last_closed_time[t]
        /\ last_times[t] # Unset =>
              \E k \in 1..Len(writes[t]) : writes[t][k].time = last_times[t]

\* the part of C6 that holds: last_closed_time of watch_and_export_on_close
C6_WatermarkAfterWriteInWatch ==
    \A t \in TfSet :
        (prog = "watch" /\ Len(observed[t]) > 0 /\ last_closed_time[t] # observed[t][1]) =>
            \E k \in 1..Len(writes[t]) :
                writes[t][k].kind # "seed" /\ writes[t][k].time = last_closed_time[t]

\* positions of the two poll loops whose step asks the terminal for candles
LoopFetchPcs == {"w_poll", "w_refresh_select", "w_refresh_copy", "m_copy"}

\* C7: no fetch of the poll loop ends the loop: unless Ctrl+C arrives, the
\* step after it is again a step of the loop and no exception is under way.
C7_FetchFailureNonFatal ==
    [][(pc \in LoopFetchPcs /\ ~interrupted') =>
          (raised' = "none" /\ pc' \in TryPcs)]_vars

\* C9: when the unknown timeframe code is reported, the terminal has not been
\* asked for anything.
C9_ConfigErrorBeforeTerminal ==
    raised = "ValueError" =>
        called \cap {"initialize", "symbol_select", "copy_rates_from_pos"} = {}

\* a step in which the watcher's 2-candle fetch of tf returned a batch with
\* fewer than 2 candles
ShortFetch ==
    /\ pc \in {"w_seed_copy", "w_poll"}
    /\ src[tf] < PollBars
    /\ src' = src
    /\ lastCall' = "copy_rates_from_pos"
    /\ pc' # "finally"
    /\ <<pc, i>>' # <<pc, i>>

\* C10: a 2-candle fetch that returns fewer than 2 candles, in the seed or in
\* a poll, changes no file, prints nothing and leaves the watermark as it was.
C10_ShortFetchIsNoOp ==
    [][ShortFetch =>
          /\ file' = file
          /\ stdout' = stdout
          /\ last_closed_time' = last_closed_time]_vars

\* the part of C10 that holds: the fetch of the poll loop
C10_ShortFetchIsNoOpInPoll ==
    [][(ShortFetch /\ pc = "w_poll") =>
          /\ file' = file
          /\ stdout' = stdout
          /\ last_closed_time' = last_closed_time]_vars

\* the number of header rows among the lines of a file
Headers(f) == Cardinality({k \in 1..Len(f.lines) : f.lines[k] = Header})

\* C11: export_csv with append=True on a missing path leaves what a full
\* write of the same records leaves, header first and then the rows; on an
\* existing path it adds the rows after the lines the file had; so every file
\* that export_csv calls produced, starting from no file, has one header row,
\* its first row.
C11_AppendFallbackOneHeader ==
    /\ [](\A t \in Codes : file[t].exists =>
              (Headers(file[t]) = 1 /\ file[t].lines[1] = Header))
    /\ [][(writes' # writes /\ Last(writes'[tf]).kind = "append") =>
            IF file[tf].exists
            THEN file'[tf].lines = file[tf].lines \o Rows(rates')
            ELSE /\ file'[tf].exists
                 /\ file'[tf].lines = <<Header>> \o Rows(rates')
                 /\ file'[tf] = export_csv(file[tf], rates', FALSE)]_vars

\* an append on a missing path wrote header and rows, after the file had
\* been written and removed
C11_Witness ==
    /\ prog = "fetch_to_csv"
    /\ Len(writes[tf]) = 2
    /\ Last(writes[tf]).kind = "append"
    /\ file[tf].lines = <<Header>> \o Rows(rates)
    /\ Len(rates) = 2

\* an append on an existing path added rows after the rows of a full write
C11_WitnessExisting ==
    /\ prog = "fetch_to_csv"
    /\ Len(writes[tf]) = 2
    /\ writes[tf][1].kind = "full"
    /\ writes[tf][2].kind = "append"
    /\ Len(file[tf].lines) = 4
    /\ Headers(file[tf]) = 1

\* C12: a step that changes the content of a CSV is a write that completed:
\* a write cut short by an I/O error or by Ctrl+C leaves the file as it was.
C12_NoPartialWrite ==
    [][(file' # file /\ file'[tf].exists) => writes' # writes]_vars

\* a step of the poll loop in which mt5.copy_rates_from_pos returned None
\* although the terminal's history has the candles asked for, as it does
\* when the connection to the terminal is lost
PollGotNone ==
    /\ pc \in {"w_poll", "m_copy"}
    /\ src[tf] >= (IF prog = "watch" THEN PollBars ELSE 1)
    /\ src' = src
    /\ ~interrupted'
    /\ pc' # pc
    /\ observed' = observed

\* C13: when the terminal stops answering in the poll loop, the loop ends
\* with the error; the fetch is not tried again on a later tick.
C13_ConnectionLossIsFatal ==
    [][PollGotNone => (pc' = "finally" /\ raised' = "RuntimeError")]_vars

\* the part of C13 that holds: monitor_timeframes
C13_ConnectionLossIsFatalInMonitor ==
    [][(PollGotNone /\ prog = "monitor") =>
          (pc' = "finally" /\ raised' = "RuntimeError")]_vars

\* C14: under the append policy, the write of a poll that found a newer
\* candle and finds the CSV missing leaves a full export: the header and the
\* latest bars_to_keep candles of the terminal.
C14_MissingFileIsSeeded ==
    [][(pc = "w_append_write" /\ ~file[tf].exists /\ writes' # writes) =>
          file'[tf] = to_csv_w(copy_rates_from_pos(src[tf], BarsToKeep))]_vars

\* what the code does in the case of C14: the header and the one latest row
C14_MissingFileGetsLatestRow ==
    [][(pc = "w_append_write" /\ ~file[tf].exists /\ writes' # writes) =>
          file'[tf].lines = <<Header, Row(latest_closed_utc)>>]_vars

\* positions of the watcher before its poll loop
W_StartPcs == {"w_init", "w_prep", "w_prep_select", "w_prep_copy", "w_prep_write",
               "w_seed", "w_seed_select", "w_seed_copy"}

\* the CSV an earlier run left behind, and the open_time of its last row
LeftBehindLast(t) == IF t \in MAP THEN Max(InitBars - 1, 0) ELSE 0
LeftBehind(t) == to_csv_w(copy_rates_from_pos(LeftBehindLast(t), BarsToKeep))

\* the file of timeframe t holds a candle that closed while the watcher was
\* down: one after the last row left behind and not after the seed's candle
HoldsMissedCandle(t) ==
    /\ t \in existed
    /\ Len(observed[t]) > 0
    /\ \E k \in 1..Len(file[t].lines) :
          /\ file[t].lines[k].kind = "row"
          /\ file[t].lines[k].time > LeftBehindLast(t)
          /\ file[t].lines[k].time <= observed[t][1]

\* startup and seed of a timeframe whose CSV existed write nothing to it, the
\* seed sets the watermark to the latest closed candle, and a full export at
\* startup is made only for a timeframe whose CSV did not exist
StartupLeavesFile ==
    /\ [](prog = "watch" =>
            \A t \in TfSet \cap existed :
                /\ pc \in W_StartPcs => (file[t] = LeftBehind(t) /\ writes[t] = <<>>)
                /\ \A k \in 1..Len(writes[t]) : writes[t][k].kind # "seed")
    /\ [][(pc = "w_seed_copy" /\ src' = src /\ pc' \notin {pc, "finally"}) =>
            /\ last_closed_time'[tf] = src[tf]
            /\ file' = file
            /\ writes' = writes]_vars

\* C15 (as stated): for a timeframe whose CSV existed at startup, startup and
\* seed write nothing and set the watermark to the latest closed candle, and
\* no candle that closed while the watcher was down is written later in the
\* run.
C15_NoBackfill ==
    /\ StartupLeavesFile
    /\ [](prog = "watch" => \A t \in TfSet : ~HoldsMissedCandle(t))

\* C15 (amended): the same, the candles that closed while the watcher was
\* down being never written under the append policy; a full refresh writes the
\* window of the terminal, which can hold them.
C15_NoBackfillUnderAppend ==
    /\ StartupLeavesFile
    /\ []((prog = "watch" /\ ~full_refresh_on_close) =>
             \A t \in TfSet : ~HoldsMissedCandle(t))

\* candle 2 closed while the watcher was down, candle 3 was appended after
\* the row of candle 1 that the earlier run left
C15_Witness ==
    /\ prog = "watch"
    /\ ~full_refresh_on_close
    /\ \E t \in TfSet \cap existed :
          /\ Len(observed[t]) > 0
          /\ observed[t][1] > LeftBehindLast(t)
          /\ Len(file[t].lines) = Len(LeftBehind(t).lines) + 1
          /\ Last(file[t].lines).time > observed[t][1]
          /\ last_closed_time[t] = Last(file[t].lines).time

\* a step of the poll loop that fetched for tf and saw a latest open_time
\* older than the watermark of tf
PollSawOlder ==
    /\ pc \in {"w_poll", "m_copy"}
    /\ Len(observed'[tf]) = Len(observed[tf]) + 1
    /\ Last(observed'[tf]) < Watermark(tf)

\* a poll that sees an older candle does nothing, and no step lowers a watermark
OlderIsNoOp ==
    /\ PollSawOlder =>
          /\ file' = file
          /\ writes' = writes
          /\ stdout' = stdout
          /\ pc' \in {"w_poll", "w_sleep", "m_init", "m_sleep"}
    /\ \A t \in Codes :
          /\ last_closed_time'[t] >= last_closed_time[t]
          /\ last_times'[t] >= last_times[t]

\* C16: a poll whose latest candle is older than the watermark writes
\* nothing, prints nothing and leaves the watermark, and no watermark ever
\* decreases; for last_closed_time and for last_times.
C16_WatermarkNeverDecreases == [][OlderIsNoOp]_vars

\* the part of C16 that holds: watch_and_export_on_close
C16_WatermarkNeverDecreasesInWatch == [][prog = "watch" => OlderIsNoOp]_vars

\* C17: a run that called mt5.initialize(), successfully or not, has called
\* mt5.shutdown() when it ends, and nothing that mt5.shutdown() raises comes
\* out of the function.
C17_DisconnectAlwaysSafe ==
    /\ (pc = "done" /\ "initialize" \in called) => "shutdown" \in called
    /\ raised # "Exception"

\* the parts of C17 that hold: shutdown_mt5 of the watcher swallows what
\* mt5.shutdown() raises, and monitor_timeframes always reaches its
\* mt5.shutdown()
C17_DisconnectWhereSafe ==
    /\ prog = "watch" => raised # "Exception"
    /\ (prog = "monitor" /\ pc = "done") => "shutdown" \in called

\* a tick of monitor_timeframes for tf whose fetch returned a batch
M_Tick ==
    /\ prog = "monitor"
    /\ pc = "m_copy"
    /\ pc' # pc
    /\ src' = src
    /\ ~interrupted'
    /\ raised' = "none"

\* what a tick that goes on to write has fetched, what its write leaves and
\* what is printed after it
M_TickWrites ==
    /\ (M_Tick /\ pc' = "m_write") =>
          rates' = copy_rates_from_pos(src[tf], BarsToKeep)
    /\ (pc = "m_write" /\ writes' # writes) =>
          (file'[tf].lines = <<Header>> \o Rows(rates) /\ pc' = "m_print")
    /\ (pc = "m_print" /\ ~interrupted') =>
          stdout'[tf] = Append(stdout[tf], Last(rates))
    /\ (prog = "monitor" /\ pc \notin {"m_write", "m_print"}) =>
          (file' = file /\ stdout' = stdout)

\* C18: a tick of monitor_timeframes goes on to rewrite the CSV of tf with
\* the complete batch and to print the Updated line exactly when the batch is
\* not empty and the time of its last record is newer than the time recorded
\* for tf; no other tick writes or prints.
C18_UpdatedWhenNewer ==
    [][/\ M_Tick => (pc' = "m_write" <=> (src[tf] > 0 /\ src[tf] > last_times[tf]))
       /\ M_TickWrites]_vars

\* what the code does in the case of C18: it writes exactly when the time of
\* the last record differs from the time recorded
C18_UpdatedWhenDifferent ==
    [][/\ M_Tick => (pc' = "m_write" <=> (src[tf] > 0 /\ src[tf] # last_times[tf]))
       /\ M_TickWrites]_vars

\* the last row of the CSV of timeframe t is the candle of its watermark
LastRowIsWatermark(t) ==
    /\ file[t].exists
    /\ Len(file[t].lines) > 1
    /\ Last(file[t].lines) = Row(last_closed_time[t])

\* C19: in watch_and_export_on_close under the append policy, for a
\* timeframe whose CSV did not exist at startup, whenever the watcher is in
\* its poll loop and not in the middle of a poll of the timeframe, the last row
\* of the CSV is the candle of the watermark.
C19_LastRowIsWatermark ==
    \A t \in TfSet \ existed :
        (W_BetweenPolls(t) /\ ~full_refresh_on_close) => LastRowIsWatermark(t)

\* the part of C19 that holds: the runs in which the export of the file
\* preparation and the seed saw the same latest candle
C19_LastRowIsWatermarkWhenSeedAgrees ==
    \A t \in TfSet \ existed :
        (/\ W_BetweenPolls(t)
         /\ ~full_refresh_on_close
         /\ Len(writes[t]) > 0
         /\ writes[t][1].time = observed[t][1])
        => LastRowIsWatermark(t)

\* the open_times of the rows the polls of timeframe t appended, in order
AppendedTimes(t) ==
    LET a == SelectSeq(writes[t], LAMBDA w : w.kind = "append")
    IN  [k \in 1..Len(a) |-> a[k].time]

StrictlyIncreasing(s) == \A j \in 1..(Len(s) - 1) : s[j] < s[j + 1]

\* C20: under the append policy the write of a poll adds one row, the row of
\* the newest candle rates[-1], which is newer than the watermark, whatever
\* the number of candles that closed since the poll before; it is the only
\* write of the poll; and the open_times of the rows appended in a run are
\* strictly increasing, so that a candle passed over is not appended later.
C20_AtMostOneRowPerPoll ==
    /\ []((prog = "watch" /\ ~full_refresh_on_close) =>
             \A t \in TfSet :
                 /\ StrictlyIncreasing(AppendedTimes(t))
                 /\ \A k \in 1..Len(writes[t]) : writes[t][k].kind \in {"seed", "append"})
    /\ [][(pc = "w_append_write" /\ writes' # writes) =>
            /\ file'[tf].lines =
                 (IF file[tf].exists THEN file[tf].lines ELSE <<Header>>)
                 \o <<Row(Last(rates))>>
            /\ Last(rates) = copy_rates_from_pos(src[tf], PollBars)[PollBars]
            /\ Last(rates) > last_closed_time[tf]
            /\ Last(writes'[tf]).time = Last(rates)
            /\ \A t \in Codes \ {tf} : file'[t] = file[t]
            /\ pc' = "w_mark"]_vars
    /\ [][pc = "w_mark" => (file' = file /\ writes' = writes /\ pc' # "w_append_write")]_vars

\* two candles closed between two polls: the newest was appended after the
\* row the file had, the one between them is not in the file
C20_Witness ==
    /\ prog = "watch"
    /\ ~full_refresh_on_close
    /\ pc = "w_sleep"
    /\ \E t \in TfSet :
          /\ Len(observed[t]) = 2
          /\ observed[t][2] = observed[t][1] + 2
          /\ AppendedTimes(t) = <<observed[t][2]>>
          /\ Last(file[t].lines) = Row(observed[t][2])
          /\ \A k \in 1..Len(file[t].lines) :
                file[t].lines[k] # Row(observed[t][1] + 1)

\* positions of the two poll loops: the poll of timeframe tf
PollPcs == {"w_poll", "w_refresh_select", "w_refresh_copy", "w_refresh_write",
            "w_append_write", "w_mark", "m_init", "m_copy", "m_write", "m_print"}

\* C21: with a path of its own for every timeframe, no step of the poll of
\* timeframe tf, whichever branch it takes and however it ends, changes the
\* watermark or the CSV of another timeframe.
C21_OtherTargetsUntouched ==
    [][(pc \in PollPcs) =>
          \A b \in Codes \ {tf} :
              /\ file'[b] = file[b]
              /\ last_closed_time'[b] = last_closed_time[b]
              /\ last_times'[b] = last_times[b]]_vars

\* the watcher ran with two timeframes and the poll of the second appended a
\* candle: its file and watermark moved, those of the first did not
C21_Witness ==
    /\ prog = "watch"
    /\ timeframes = <<"M1", "H1">>
    /\ pc = "w_sleep"
    /\ Len(PollWrites("H1")) = 1
    /\ PollWrites("M1") = <<>>
    /\ last_closed_time["H1"] > last_closed_time["M1"]
    /\ last_closed_time["M1"] = observed["M1"][1]
    /\ file["M1"].exists
    /\ file["H1"] # file["M1"]

\* monitor_timeframes ran with two timeframes and rewrote the CSV of the
\* second only in its second pass
C21_WitnessMonitor ==
    /\ prog = "monitor"
    /\ timeframes = <<"M1", "H1">>
    /\ pc = "m_sleep"
    /\ Len(writes["H1"]) = 2
    /\ Len(writes["M1"]) = 1
    /\ last_times["H1"] # last_times["M1"]

====
